---- MODULE Spec2Model ----
(***************************************************************************)
(* A model of nomad-vmonitor: the version model and image-freshness        *)
(* classification (src/src/docker.rs, src/src/lib.rs), the registry        *)
(* bearer-auth protocol of get_tags (src/src/docker.rs), and the           *)
(* reconciliation loop with its metrics store (src/src/lib.rs,             *)
(* src/src/metrics.rs, src/src/main.rs).                                   *)
(*                                                                         *)
(* Strings are sequences of one-character strings, so that parsing and     *)
(* formatting are computed character by character as the code does.        *)
(* Option<T> is a sequence of length 0 (None) or 1 (Some).                 *)
(***************************************************************************)
EXTENDS Integers, Sequences, FiniteSets, TLC

VARIABLES
    \* ---- version model / freshness classification (SpecVersion)
    vphase,      \* position: "input", "parsed", "compared", "classified", "off"
    ref,         \* the raw tag of the task's image
    tags,        \* the tag list the registry returned
    parsed,      \* parse_version results of <<ref>> \o tags
    ords,        \* ords[i][j] = parsed[i].partial_cmp(parsed[j]) for parsed versions
    fresh        \* the classification of lib.rs:136-160

versionVars == <<vphase, ref, tags, parsed, ords, fresh>>

VARIABLES
    \* ---- one get_tags call (SpecTags)
    gpc,         \* position in get_tags: "anonymous", "authenticate", "retry", "returned", "panicked", "off"
    gimage,      \* the parsed image the call is for
    auth_conf,   \* Option<AuthConfig> taken from the challenge
    token,       \* Option<String> returned by auth
    gresult,     \* Option of the call's outcome
    requests,    \* the HTTP requests the call has sent, in order
    responses    \* the responses it has received, in order

tagsVars == <<gpc, gimage, auth_conf, token, gresult, requests, responses>>

VARIABLES
    \* ---- the reconciliation loop, the metrics store and the scrape handler (Spec)
    pc,             \* position of Client::run / Client::check
    cycle,          \* number of cycles started
    job_queue,      \* raw_task_list still to read (lib.rs:60)
    jobs,           \* tmp of lib.rs:59: the job details kept
    task_list,      \* job_task_iter, flattened: <<job, group, task, config>>
    tidx,           \* number of tasks of task_list already gone through
    updates,        \* tmp of lib.rs:89: <<job, group, task, result>>
    up_to_date,     \* GaugeVec up_to_date: labels -> value
    out_of_date,    \* GaugeVec out_of_date: labels -> value
    versions,       \* GaugeVec versions: labels -> value
    pidx,           \* number of updates already published
    scraped,        \* Option: the metrics a scrape in flight has gathered
    last_published, \* history: the store as the last completed cycle left it
    last_good,      \* history: labels -> the result last published for them
    last_task,      \* history: Option, the latest get_version run and its requests
    nomad_error,    \* history: the Nomad request that failed, or "none"
    read_log,       \* history: <<id, parent_id>> of the job details read this cycle
    panic_at        \* history: the unwrap that ended the loop task, or "none"

loopVars == <<pc, cycle, job_queue, jobs, task_list, tidx, updates, up_to_date, out_of_date,
              versions, pidx, scraped, last_published, last_good, last_task, nomad_error,
              read_log, panic_at>>

VARIABLES
    \* ---- Image::parse of one raw reference (SpecImage)
    ipc,         \* position: "input", "returned", "off"
    image_raw,   \* raw: the image reference of a task's config
    image_res    \* Option of the Result Image::parse returned

imageVars == <<ipc, image_raw, image_res>>

VARIABLES
    \* ---- EventStream::listen (SpecStream)
    spc,         \* position: "connect", "chunk", "sleep", "off"
    index,       \* self.index
    pending,     \* the bytes received and not yet split off as a line
    notified,    \* number of notify_waiters calls made
    query,       \* Option: the index of the query of the last request sent
    connects,    \* number of requests sent
    received     \* number of chunks received

streamVars == <<spc, index, pending, notified, query, connects, received>>

vars == <<versionVars, tagsVars, loopVars, imageVars, streamVars>>

----------------------------------------------------------------------------
(* Bounds *)

\* Longest tag list a registry response carries in the model.
MaxTags == 3

\* Number of reconciliation cycles the loop starts in the model.
MaxCycles == 2

----------------------------------------------------------------------------
(* Option and strings *)

None == <<>>
Some(x) == <<x>>
IsSome(o) == Len(o) = 1
Unwrap(o) == o[1]

\* The variables of a part of the program that a specification leaves out.
TagsOff ==
    /\ gpc = "off"
    /\ gimage = <<>>
    /\ auth_conf = <<>>
    /\ token = <<>>
    /\ gresult = <<>>
    /\ requests = <<>>
    /\ responses = <<>>

VersionOff ==
    /\ vphase = "off"
    /\ ref = <<>>
    /\ tags = <<>>
    /\ parsed = <<>>
    /\ ords = <<>>
    /\ fresh = <<>>

LoopOff ==
    /\ pc = "off"
    /\ cycle = 0
    /\ job_queue = <<>>
    /\ jobs = <<>>
    /\ task_list = <<>>
    /\ tidx = 0
    /\ updates = <<>>
    /\ up_to_date = <<>>
    /\ out_of_date = <<>>
    /\ versions = <<>>
    /\ pidx = 0
    /\ scraped = <<>>
    /\ last_published = <<>>
    /\ last_good = <<>>
    /\ last_task = <<>>
    /\ nomad_error = "none"
    /\ read_log = <<>>
    /\ panic_at = "none"

ImageOff ==
    /\ ipc = "off"
    /\ image_raw = <<>>
    /\ image_res = <<>>

StreamOff ==
    /\ spc = "off"
    /\ index = 0
    /\ pending = <<>>
    /\ notified = 0
    /\ query = <<>>
    /\ connects = 0
    /\ received = 0

Digits == <<"0", "1", "2", "3", "4", "5", "6", "7", "8", "9">>
IsDigit(c) == \E i \in 1..10 : Digits[i] = c
DigitVal(c) == (CHOOSE i \in 1..10 : Digits[i] = c) - 1

S_latest == <<"l", "a", "t", "e", "s", "t">>

\* str::contains(char)
Contains(s, c) == \E i \in 1..Len(s) : s[i] = c

\* Index of the first occurrence of c in s, 0 when there is none.
FirstIndex(s, c) ==
    IF Contains(s, c) THEN CHOOSE i \in 1..Len(s) : s[i] = c /\ \A j \in 1..(i - 1) : s[j] # c
    ELSE 0

\* str::split(char): always at least one piece; "a..b" gives "a", "", "b".
RECURSIVE Split(_, _)
Split(s, c) ==
    LET i == FirstIndex(s, c) IN
    IF i = 0 THEN <<s>>
    ELSE <<SubSeq(s, 1, i - 1)>> \o Split(SubSeq(s, i + 1, Len(s)), c)

\* str::split_once(char): None, or Some(<<before, after>>) around the FIRST occurrence.
SplitOnce(s, c) ==
    LET i == FirstIndex(s, c) IN
    IF i = 0 THEN None
    ELSE Some(<<SubSeq(s, 1, i - 1), SubSeq(s, i + 1, Len(s))>>)

\* str::strip_prefix(char).unwrap_or(s)
StripPrefixOr(s, c) == IF Len(s) > 0 /\ s[1] = c THEN Tail(s) ELSE s

RECURSIVE DigitsValue(_)
DigitsValue(s) ==
    IF Len(s) = 0 THEN 0
    ELSE 10 * DigitsValue(SubSeq(s, 1, Len(s) - 1)) + DigitVal(s[Len(s)])

\* <usize as FromStr>::from_str: an optional leading "+", then one or more decimal
\* digits; anything else is an error (None). Overflow of the 64-bit usize needs 20
\* digits and lies beyond the tag lengths of the model.
ParseUsize(s) ==
    LET body == IF Len(s) > 0 /\ s[1] = "+" THEN Tail(s) ELSE s IN
    IF Len(body) > 0 /\ \A i \in 1..Len(body) : IsDigit(body[i])
    THEN Some(DigitsValue(body))
    ELSE None

\* Display of a usize.
RECURSIVE UsizeToStr(_)
UsizeToStr(n) ==
    IF n < 10 THEN <<Digits[n + 1]>>
    ELSE UsizeToStr(n \div 10) \o <<Digits[(n % 10) + 1]>>

----------------------------------------------------------------------------
(* Version: docker.rs *)

Latest == [kind |-> "Latest"]
Semantic(major, minor, patch) ==
    [kind |-> "Semantic", major |-> major, minor |-> minor, patch |-> patch]

Ok(v) == [ok |-> TRUE, v |-> v]
Err(e) == [ok |-> FALSE, e |-> e]

\* parse_version as it would be if a non-numeric second or third component were an
\* error instead of being treated as absent.
parse_version_Strict(tag) ==
    IF tag = S_latest THEN Ok(Latest)
    ELSE
        LET t == StripPrefixOr(tag, "v")
            parts == Split(t, ".")
            major == ParseUsize(parts[1])
            minor == IF Len(parts) >= 2 THEN ParseUsize(parts[2]) ELSE None
            patch == IF Len(parts) >= 3 THEN ParseUsize(parts[3]) ELSE None
        IN  IF ~IsSome(major) THEN Err("unit")
            ELSE IF Len(parts) >= 2 /\ ~IsSome(minor) THEN Err("unit")
            ELSE IF Len(parts) >= 3 /\ ~IsSome(patch) THEN Err("unit")
            ELSE Ok(Semantic(Unwrap(major), minor, patch))

\* parse_version as it would be if a non-numeric third component dropped the
\* second one with it.
parse_version_DropBoth(tag) ==
    IF tag = S_latest THEN Ok(Latest)
    ELSE
        LET t == StripPrefixOr(tag, "v")
            parts == Split(t, ".")
            major == ParseUsize(parts[1])
            minor == IF Len(parts) >= 2 THEN ParseUsize(parts[2]) ELSE None
            patch == IF Len(parts) >= 3 THEN ParseUsize(parts[3]) ELSE None
        IN  IF ~IsSome(major) THEN Err("unit")
            ELSE IF Len(parts) >= 3 /\ ~IsSome(patch) THEN Ok(Semantic(Unwrap(major), None, None))
            ELSE Ok(Semantic(Unwrap(major), minor, patch))

\* RawTag::parse_version
parse_version(tag) ==
    IF tag = S_latest THEN Ok(Latest)
    ELSE
        LET t == StripPrefixOr(tag, "v")
            parts == Split(t, ".")
            major == ParseUsize(parts[1])
            minor == IF Len(parts) >= 2 THEN ParseUsize(parts[2]) ELSE None
            patch == IF Len(parts) >= 3 THEN ParseUsize(parts[3]) ELSE None
        IN  IF ~IsSome(major) THEN Err("unit")
            ELSE Ok(Semantic(Unwrap(major), minor, patch))

\* Version::fully_qualified
fully_qualified(v) ==
    IF v.kind = "Latest" THEN TRUE
    ELSE IsSome(v.minor) /\ IsSome(v.patch)

\* impl Display for Version
Display(v) ==
    IF v.kind = "Latest" THEN S_latest
    ELSE IF ~IsSome(v.minor) THEN UsizeToStr(v.major)
    ELSE IF ~IsSome(v.patch) THEN UsizeToStr(v.major) \o <<".">> \o UsizeToStr(Unwrap(v.minor))
    ELSE UsizeToStr(v.major) \o <<".">> \o UsizeToStr(Unwrap(v.minor))
             \o <<".">> \o UsizeToStr(Unwrap(v.patch))

\* usize::cmp
UsizeCmp(x, y) == IF x < y THEN "Less" ELSE IF x = y THEN "Equal" ELSE "Greater"

\* impl PartialOrd for Version: partial_cmp (always Some; the Ordering is returned)
partial_cmp(self, other) ==
    IF self.kind = "Latest" /\ other.kind = "Latest" THEN "Equal"
    ELSE IF self.kind = "Latest" THEN "Less"
    ELSE IF other.kind = "Latest" THEN "Greater"
    ELSE IF UsizeCmp(self.major, other.major) # "Equal" THEN UsizeCmp(self.major, other.major)
    ELSE IF ~IsSome(self.minor) /\ ~IsSome(other.minor) THEN "Equal"
    ELSE IF IsSome(self.minor) /\ ~IsSome(other.minor) THEN "Less"
    ELSE IF ~IsSome(self.minor) /\ IsSome(other.minor) THEN "Greater"
    ELSE IF UsizeCmp(Unwrap(self.minor), Unwrap(other.minor)) # "Equal"
         THEN UsizeCmp(Unwrap(self.minor), Unwrap(other.minor))
    ELSE IF ~IsSome(self.patch) /\ ~IsSome(other.patch) THEN "Equal"
    ELSE IF IsSome(self.patch) /\ ~IsSome(other.patch) THEN "Less"
    ELSE IF ~IsSome(self.patch) /\ IsSome(other.patch) THEN "Greater"
    ELSE UsizeCmp(Unwrap(self.patch), Unwrap(other.patch))

\* impl Ord for Version: cmp
cmp(self, other) == partial_cmp(self, other)

\* Iterator::max over Ord: of several equally maximum elements the last is returned.
RECURSIVE IterMaxFrom(_, _)
IterMaxFrom(best, rest) ==
    IF Len(rest) = 0 THEN best
    ELSE IterMaxFrom(IF cmp(best, Head(rest)) = "Greater" THEN best ELSE Head(rest),
                     Tail(rest))

IterMax(s) == IF Len(s) = 0 THEN None ELSE Some(IterMaxFrom(Head(s), Tail(s)))

----------------------------------------------------------------------------
(* Freshness classification: lib.rs, Client::check, the Docker arm *)

NoResult == [kind |-> "None"]
UpToDate(version) == [kind |-> "UpToDate", version |-> version]
OutOfDate(current, newest) == [kind |-> "OutOfDate", current |-> current, newest |-> newest]

ParsesQualified(tag) ==
    parse_version(tag).ok /\ fully_qualified(parse_version(tag).v)

\* tags.iter().filter_map(parse_version().ok()).filter(fully_qualified): in list order.
CandidatePool(tag_list) ==
    LET kept == SelectSeq(tag_list, ParsesQualified)
    IN  [i \in 1..Len(kept) |-> parse_version(kept[i]).v]

ParsesAtAll(tag) == parse_version(tag).ok

\* Classify with the fully_qualified filter left out of the pool.
Classify_NoFilter(image_version, tag_list) ==
    LET kept == SelectSeq(tag_list, ParsesAtAll)
        pool == [i \in 1..Len(kept) |-> parse_version(kept[i]).v]
        latest_version == IterMax(pool)
    IN  IF ~IsSome(latest_version) THEN NoResult
        ELSE IF partial_cmp(Unwrap(latest_version), image_version) = "Greater"
             THEN OutOfDate(Display(image_version), Display(Unwrap(latest_version)))
             ELSE UpToDate(Display(image_version))

\* lib.rs:136-160: the maximum of the pool against the image's own version.
Classify(image_version, tag_list) ==
    LET latest_version == IterMax(CandidatePool(tag_list)) IN
    IF ~IsSome(latest_version) THEN NoResult
    ELSE IF partial_cmp(Unwrap(latest_version), image_version) = "Greater"
         THEN OutOfDate(Display(image_version), Display(Unwrap(latest_version)))
         ELSE UpToDate(Display(image_version))

----------------------------------------------------------------------------
(* SpecVersion: the version model applied to a reference tag and a tag list *)

T_1 == <<"1">>
T_1_2 == <<"1", ".", "2">>
T_1_2_3 == <<"1", ".", "2", ".", "3">>
T_1_3_0 == <<"1", ".", "3", ".", "0">>
T_v1_2_3 == <<"v", "1", ".", "2", ".", "3">>
T_1_x_3 == <<"1", ".", "x", ".", "3">>
T_2_0_0 == <<"2", ".", "0", ".", "0">>
T_x == <<"x">>

\* Tags a registry or a job file can carry: the floating tag, partial and full
\* versions, a leading v, a non-numeric component, a non-version tag.
TagPool == {S_latest, T_1, T_1_2, T_1_2_3, T_1_3_0, T_v1_2_3, T_1_x_3, T_2_0_0, T_x}

T_1_2_x == <<"1", ".", "2", ".", "x">>
T_1__3 == <<"1", ".", ".", "3">>
T_x_2_3 == <<"x", ".", "2", ".", "3">>
T_vv1 == <<"v", "v", "1">>
T_v == <<"v">>
T_empty == <<>>

\* Tags the image of a task can carry: any string of the job file, so also a
\* non-numeric last component, an empty component, a non-numeric first one, a
\* doubled or bare v, and the empty tag of a reference ending in ":".
RefPool == TagPool \cup {T_1_2_x, T_1__3, T_x_2_3, T_vv1, T_v, T_empty}

SeqsUpTo(S, n) == UNION {[1..k -> S] : k \in 0..n}

InitVersion ==
    /\ vphase = "input"
    /\ ref \in RefPool
    /\ tags \in SeqsUpTo(TagPool, MaxTags)
    /\ parsed = <<>>
    /\ ords = <<>>
    /\ fresh = NoResult
    /\ TagsOff
    /\ LoopOff
    /\ ImageOff
    /\ StreamOff

\* image.tag.parse_version() (lib.rs:108) and raw_tag.parse_version() (lib.rs:140)
ParseTags ==
    /\ vphase = "input"
    /\ parsed' = [i \in 1..(Len(tags) + 1) |-> parse_version((<<ref>> \o tags)[i])]
    /\ vphase' = "parsed"
    /\ UNCHANGED <<ref, tags, ords, fresh, tagsVars, loopVars, imageVars, streamVars>>

\* every comparison the order makes between the versions at hand
CompareAll ==
    /\ vphase = "parsed"
    /\ ords' = [i \in 1..Len(parsed) |-> [j \in 1..Len(parsed) |->
                  IF parsed[i].ok /\ parsed[j].ok
                  THEN partial_cmp(parsed[i].v, parsed[j].v) ELSE "n/a"]]
    /\ vphase' = "compared"
    /\ UNCHANGED <<ref, tags, parsed, fresh, tagsVars, loopVars, imageVars, streamVars>>

\* lib.rs:136-160, reached with a parsed, non-Latest image version (lib.rs:108-126)
ClassifyTask ==
    /\ vphase = "compared"
    /\ parsed[1].ok
    /\ parsed[1].v # Latest
    /\ fresh' = Classify(parsed[1].v, tags)
    /\ vphase' = "classified"
    /\ UNCHANGED <<ref, tags, parsed, ords, tagsVars, loopVars, imageVars, streamVars>>

NextVersion == ParseTags \/ CompareAll \/ ClassifyTask

SpecVersion == InitVersion /\ [][NextVersion]_vars

----------------------------------------------------------------------------
(* Claims about the version model (checked under SpecVersion) *)

\* The parsed versions at hand: positions of <<ref>> \o tags that parsed.
ParsedIdx == {i \in 1..Len(parsed) : parsed[i].ok}

\* The order as section 4.2 words it: position by position, a missing component
\* below a present one, two missing components equal.
StatedOptCmp(x, y) ==
    IF ~IsSome(x) /\ ~IsSome(y) THEN "Equal"
    ELSE IF ~IsSome(x) THEN "Less"
    ELSE IF ~IsSome(y) THEN "Greater"
    ELSE UsizeCmp(Unwrap(x), Unwrap(y))

StatedOrder(a, b) ==
    IF a.kind = "Latest" /\ b.kind = "Latest" THEN "Equal"
    ELSE IF a.kind = "Latest" THEN "Less"
    ELSE IF b.kind = "Latest" THEN "Greater"
    ELSE IF UsizeCmp(a.major, b.major) # "Equal" THEN UsizeCmp(a.major, b.major)
    ELSE IF StatedOptCmp(a.minor, b.minor) # "Equal" THEN StatedOptCmp(a.minor, b.minor)
    ELSE StatedOptCmp(a.patch, b.patch)

\* C9: every comparison the code makes between two parsed versions gives the
\* result of the stated order: major, then minor, then patch, a missing component
\* less than a present one, two missing ones equal and the comparison going on to
\* the next position; Latest less than every Semantic value.
C9_CompareAsStated ==
    vphase \in {"compared", "classified"} =>
        \A i \in ParsedIdx : \A j \in ParsedIdx :
            ords[i][j] = StatedOrder(parsed[i].v, parsed[j].v)

Leq(o) == o \in {"Less", "Equal"}

\* C10: over the versions parse_version produces the order is total and agrees
\* with equality: cmp gives Equal exactly for equal values, a < b exactly when
\* b > a, a <= b and b <= a imply a = b, and a <= b and b <= c imply a <= c.
C10_TotalOrderConsistent ==
    vphase \in {"compared", "classified"} =>
        \A i \in ParsedIdx : \A j \in ParsedIdx :
            /\ (ords[i][j] = "Equal") <=> (parsed[i].v = parsed[j].v)
            /\ (ords[i][j] = "Less") <=> (ords[j][i] = "Greater")
            /\ (Leq(ords[i][j]) /\ Leq(ords[j][i])) => parsed[i].v = parsed[j].v
            /\ \A k \in ParsedIdx :
                   (Leq(ords[i][j]) /\ Leq(ords[j][k])) => Leq(ords[i][k])

\* Positions of the candidate pool in parsed: tags that parsed and are fully
\* qualified (Latest, or Semantic with minor and patch both present).
PoolIdx ==
    {i \in ParsedIdx \ {1} :
        \/ parsed[i].v.kind = "Latest"
        \/ (parsed[i].v.kind = "Semantic" /\ parsed[i].v.minor # None /\ parsed[i].v.patch # None)}

StatedNumeric(s) == Len(s) > 0 /\ \A i \in 1..Len(s) : IsDigit(s[i])

\* The components of a tag: the pieces between the dots, after one leading v.
StatedComponents(tag) == Split(IF Len(tag) > 0 /\ tag[1] = "v" THEN Tail(tag) ELSE tag, ".")

\* The k-th component as a number, absent when missing or non-numeric.
StatedComponent(tag, k) ==
    LET c == StatedComponents(tag) IN
    IF Len(c) >= k /\ StatedNumeric(c[k]) THEN <<DigitsValue(c[k])>> ELSE <<>>

\* The tags parse_version was applied to, in the order of parsed.
ParseInputs == <<ref>> \o tags

\* C11: parse_version gives Latest for the exact tag latest; for any other tag it
\* strips one leading v and splits on "."; it fails exactly when the first
\* component is not a non-negative integer; the second and the third component
\* are each Some(n) when numeric and absent when missing or non-numeric, the one
\* independently of the other; 1.2.3 and v1.2.3 give Semantic{1, Some(2), Some(3)}
\* and 1 gives Semantic{1, None, None}.
C11_ParseVersion ==
    vphase # "input" =>
        /\ \A i \in 1..Len(parsed) :
              LET tag == ParseInputs[i] IN
              IF tag = S_latest THEN parsed[i] = [ok |-> TRUE, v |-> [kind |-> "Latest"]]
              ELSE /\ parsed[i].ok <=> StatedNumeric(StatedComponents(tag)[1])
                   /\ parsed[i].ok =>
                         /\ parsed[i].v.kind = "Semantic"
                         /\ parsed[i].v.major = DigitsValue(StatedComponents(tag)[1])
                         /\ parsed[i].v.minor = StatedComponent(tag, 2)
                         /\ parsed[i].v.patch = StatedComponent(tag, 3)
        /\ \A i \in 1..Len(parsed) :
              /\ ParseInputs[i] \in {T_1_2_3, T_v1_2_3} =>
                    parsed[i] = [ok |-> TRUE, v |-> [kind |-> "Semantic", major |-> 1,
                                                     minor |-> <<2>>, patch |-> <<3>>]]
              /\ ParseInputs[i] = T_1 =>
                    parsed[i] = [ok |-> TRUE, v |-> [kind |-> "Semantic", major |-> 1,
                                                     minor |-> <<>>, patch |-> <<>>]]

\* A tag with a non-numeric second component and a numeric third one has been
\* parsed next to a tag with a leading v and a tag that does not parse.
C11_Witness ==
    /\ vphase = "parsed"
    /\ ref = T_1_x_3
    /\ parsed[1].ok /\ parsed[1].v.minor = <<>> /\ parsed[1].v.patch = <<3>>
    /\ tags = <<T_v1_2_3, T_x, S_latest>>
    /\ ~parsed[3].ok

\* Positions whose tag has a numeric first and second component and a third
\* component that is present but not numeric.
NumericMinorOnlyIdx ==
    {i \in 1..Len(parsed) :
        LET c == StatedComponents(ParseInputs[i]) IN
        /\ ParseInputs[i] # S_latest
        /\ Len(c) >= 3
        /\ StatedNumeric(c[1]) /\ StatedNumeric(c[2]) /\ ~StatedNumeric(c[3])}

\* C12 as stated: a tag whose second component is numeric and whose third
\* component is not parses as Semantic{major, None, None}, minor and patch both
\* dropped.
C12_MinorDroppedWithPatch ==
    vphase # "input" =>
        \A i \in NumericMinorOnlyIdx :
            /\ parsed[i].ok
            /\ parsed[i].v.minor = <<>>
            /\ parsed[i].v.patch = <<>>

\* C12 as amended: such a tag parses as Semantic{major, Some(minor), None}: the
\* numeric second component is kept and only the third is dropped.
C12_MinorKeptPatchDropped ==
    vphase # "input" =>
        \A i \in NumericMinorOnlyIdx :
            /\ parsed[i].ok
            /\ parsed[i].v.major = DigitsValue(StatedComponents(ParseInputs[i])[1])
            /\ parsed[i].v.minor = <<DigitsValue(StatedComponents(ParseInputs[i])[2])>>
            /\ parsed[i].v.patch = <<>>

C12_Witness ==
    /\ vphase = "parsed"
    /\ ref = T_1_2_x
    /\ 1 \in NumericMinorOnlyIdx
    /\ parsed[1] = [ok |-> TRUE, v |-> [kind |-> "Semantic", major |-> 1,
                                        minor |-> <<2>>, patch |-> <<>>]]

----------------------------------------------------------------------------
(* Image references: docker.rs, Image::parse *)

S_hub == <<"r", "e", "g", "i", "s", "t", "r", "y", ".", "h", "u", "b", ".", "d", "o", "c", "k", "e", "r", ".", "c", "o", "m">>

\* Image::parse
Image_parse(raw) ==
    IF Contains(raw, "$") THEN Err(raw)
    ELSE
        LET sp == SplitOnce(raw, ":")
            raw_name == IF IsSome(sp) THEN Unwrap(sp)[1] ELSE raw
            tag == IF IsSome(sp) THEN Unwrap(sp)[2] ELSE S_latest
            parts0 == Split(raw_name, "/")
            explicit == Contains(parts0[1], ".")
            registry == IF explicit THEN parts0[1] ELSE S_hub
            parts == IF explicit THEN Tail(parts0) ELSE parts0
        IN  IF Len(parts0) = 0 THEN Err(raw)
            ELSE IF Len(parts) = 1
                 THEN Ok([registry |-> registry, namespace |-> None, name |-> parts[1], tag |-> tag])
            ELSE IF Len(parts) = 2
                 THEN Ok([registry |-> registry, namespace |-> Some(parts[1]),
                          name |-> parts[2], tag |-> tag])
            ELSE Err(raw)

----------------------------------------------------------------------------
(* SpecImage: Image::parse applied to the raw image reference of a task *)

\* Number of pieces, separated by "/" or ":", a raw reference of the model has
\* at most.
MaxSegs == 4

R_user_test == <<"u", "s", "e", "r", "/", "t", "e", "s", "t", ":", "v", "e", "r", "s", "i", "o", "n">>
R_test == <<"t", "e", "s", "t", ":", "v", "e", "r", "s", "i", "o", "n">>
R_host_user_test == <<"t", "e", "s", "t", ".", "c", "o", "m", "/", "u", "s", "e", "r", "/", "t", "e", "s", "t", ":", "v", "e", "r", "s", "i", "o", "n">>
S_user == <<"u", "s", "e", "r">>
S_test == <<"t", "e", "s", "t">>
S_version == <<"v", "e", "r", "s", "i", "o", "n">>
S_test_com == <<"t", "e", "s", "t", ".", "c", "o", "m">>

\* The references of the tests of docker.rs.
ExampleRefs == {R_user_test, R_test, R_host_user_test}

\* Pieces of a reference: empty, a plain name, a name with a dot (a host), a
\* number (a port or a version), an unresolved template variable.
SegPool == {<<>>, <<"x">>, <<"x", ".", "c">>, <<"1">>, <<"$", "V">>}

\* The references made of exactly n pieces.
RECURSIVE RawRefs(_)
RawRefs(n) ==
    IF n = 1 THEN SegPool
    ELSE {r \o <<sep>> \o seg : r \in RawRefs(n - 1), sep \in {"/", ":"}, seg \in SegPool}

\* config.image of a task (nomad.rs), any string.
RawPool == ExampleRefs \cup UNION {RawRefs(n) : n \in 1..MaxSegs}

InitImage ==
    /\ ipc = "input"
    /\ image_raw \in RawPool
    /\ image_res = None
    /\ VersionOff
    /\ TagsOff
    /\ LoopOff
    /\ StreamOff

\* docker::Image::parse(raw_image) (lib.rs:95)
ParseImage ==
    /\ ipc = "input"
    /\ image_res' = Some(Image_parse(image_raw))
    /\ ipc' = "returned"
    /\ UNCHANGED <<image_raw, versionVars, tagsVars, loopVars, streamVars>>

NextImage == ParseImage

SpecImage == InitImage /\ [][NextImage]_vars

----------------------------------------------------------------------------
(* Claims about Image::parse (checked under SpecImage) *)

\* Index of the last occurrence of c in s, 0 when there is none.
LastIndex(s, c) ==
    IF \E i \in 1..Len(s) : s[i] = c
    THEN CHOOSE i \in 1..Len(s) : s[i] = c /\ \A j \in (i + 1)..Len(s) : s[j] # c
    ELSE 0

\* The name portion of a reference as section 4.1 words it: what stands before
\* the last ":", the whole reference when there is none.
StatedNamePortion(r) ==
    IF LastIndex(r, ":") = 0 THEN r ELSE SubSeq(r, 1, LastIndex(r, ":") - 1)

\* The tag of a reference as section 4.1 words it: what stands after the last
\* ":", the literal latest when there is none.
StatedTag(r) ==
    IF LastIndex(r, ":") = 0 THEN <<"l", "a", "t", "e", "s", "t">>
    ELSE SubSeq(r, LastIndex(r, ":") + 1, Len(r))

\* Whether the name portion starts with an explicit registry host.
StatedExplicit(r) == \E i \in 1..Len(Split(StatedNamePortion(r), "/")[1]) :
                         Split(StatedNamePortion(r), "/")[1][i] = "."

\* The path segments: the segments of the name portion after the registry host,
\* when there is one.
StatedPath(r) ==
    IF StatedExplicit(r) THEN Tail(Split(StatedNamePortion(r), "/"))
    ELSE Split(StatedNamePortion(r), "/")

\* A valid reference: no "$" in it, and one or two path segments.
StatedValid(r) ==
    /\ \A i \in 1..Len(r) : r[i] # "$"
    /\ Len(StatedPath(r)) \in {1, 2}

\* The four fields of a valid reference.
StatedFields(r) ==
    [registry |-> IF StatedExplicit(r) THEN Split(StatedNamePortion(r), "/")[1]
                  ELSE <<"r", "e", "g", "i", "s", "t", "r", "y", ".", "h", "u", "b", ".",
                         "d", "o", "c", "k", "e", "r", ".", "c", "o", "m">>,
     namespace |-> IF Len(StatedPath(r)) = 2 THEN <<StatedPath(r)[1]>> ELSE <<>>,
     name |-> StatedPath(r)[Len(StatedPath(r))],
     tag |-> StatedTag(r)]

\* The reference written out from its four fields: registry/namespace/name:tag.
Reconstruct(f) ==
    f.registry \o <<"/">>
        \o (IF f.namespace = <<>> THEN <<>> ELSE f.namespace[1] \o <<"/">>)
        \o f.name \o <<":">> \o f.tag

\* C13: Image::parse gives a valid reference its four fields (a first segment of
\* the name portion with a "." is the registry, otherwise the hub host; one path
\* segment is the name, two are namespace and name), writing the fields out and
\* parsing again gives the same fields, and user/test:version, test:version and
\* test.com/user/test:version give (hub, user, test, version), (hub, None, test,
\* version) and (test.com, user, test, version).
C13_ParseDecomposes ==
    ipc = "returned" =>
        /\ StatedValid(image_raw) =>
              /\ image_res[1] = [ok |-> TRUE, v |-> StatedFields(image_raw)]
              /\ Image_parse(Reconstruct(StatedFields(image_raw)))
                    = [ok |-> TRUE, v |-> StatedFields(image_raw)]
        /\ image_raw = R_user_test =>
              image_res[1] = [ok |-> TRUE, v |-> [registry |-> S_hub, namespace |-> <<S_user>>,
                                                  name |-> S_test, tag |-> S_version]]
        /\ image_raw = R_test =>
              image_res[1] = [ok |-> TRUE, v |-> [registry |-> S_hub, namespace |-> <<>>,
                                                  name |-> S_test, tag |-> S_version]]
        /\ image_raw = R_host_user_test =>
              image_res[1] = [ok |-> TRUE, v |-> [registry |-> S_test_com, namespace |-> <<S_user>>,
                                                  name |-> S_test, tag |-> S_version]]

\* C14: Image::parse takes as tag what stands after the last ":" of the raw
\* reference and as name portion everything before it, and the literal latest
\* as tag when the reference has no ":".
C14_TagAfterLastColon ==
    ipc = "returned" =>
        /\ image_res[1].ok => image_res[1].v.tag = StatedTag(image_raw)
        /\ StatedValid(image_raw) =>
              /\ image_res[1].ok
              /\ image_res[1].v.registry = StatedFields(image_raw).registry
              /\ image_res[1].v.namespace = StatedFields(image_raw).namespace
              /\ image_res[1].v.name = StatedFields(image_raw).name

\* C15: Image::parse fails for a reference that contains "$", that has more
\* than two path segments, or that has no path segment (the empty name
\* included), and every failure carries the raw reference unchanged.
C15_InvalidRejected ==
    ipc = "returned" =>
        /\ (\/ \E i \in 1..Len(image_raw) : image_raw[i] = "$"
            \/ Len(StatedPath(image_raw)) > 2
            \/ Len(StatedPath(image_raw)) = 0
            \/ StatedNamePortion(image_raw) = <<>>)
           => ~image_res[1].ok
        /\ ~image_res[1].ok => image_res[1].e = image_raw

----------------------------------------------------------------------------
(* The registry protocol: docker.rs, try_get_tags / auth / get_tags *)

\* What the registry at the other end may answer to a tag-list request.
\* kind "send_err": the request failed in transport; "bytes_err": the body could
\* not be read; "http": a response with a status, an optional www-authenticate
\* header and a body that is a TagListResponse (body = Some(tags)) or is not.
H_valid == <<"B", "e", "a", "r", "e", "r", " ", "r", "e", "a", "l", "m", "=", "\"", "h", ":", "r", "\"", ",", "s", "e", "r", "v", "i", "c", "e", "=", "\"", "s", "\"", ",", "s", "c", "o", "p", "e", "=", "\"", "p", "\"">>
H_noscope == <<"B", "e", "a", "r", "e", "r", " ", "r", "e", "a", "l", "m", "=", "\"", "h", ":", "r", "\"", ",", "s", "e", "r", "v", "i", "c", "e", "=", "\"", "s", "\"">>
H_spaced == <<"B", "e", "a", "r", "e", "r", " ", "r", "e", "a", "l", "m", "=", "\"", "h", ":", "r", "\"", ",", " ", "s", "e", "r", "v", "i", "c", "e", "=", "\"", "s", "\"", ",", " ", "s", "c", "o", "p", "e", "=", "\"", "p", "\"">>
H_noparts == <<"B", "e", "a", "r", "e", "r">>
H_badrealm == <<"B", "e", "a", "r", "e", "r", " ", "r", "e", "a", "l", "m", "=", "\"", "r", "\"", ",", "s", "e", "r", "v", "i", "c", "e", "=", "\"", "s", "\"", ",", "s", "c", "o", "p", "e", "=", "\"", "p", "\"">>
\* a header value with a byte outside visible ASCII
NonAscii == "x80"
H_opaque == <<"B", NonAscii>>

ChallengeHeaders == {H_valid, H_noscope, H_spaced, H_noparts, H_badrealm, H_opaque}

TagBodies == {None, Some(<<>>), Some(<<T_1_2_3>>), Some(<<T_1_2_3, T_1_3_0, T_1_2>>)}

TagResponses ==
    {[kind |-> "send_err"], [kind |-> "bytes_err"]}
    \cup {[kind |-> "http", status |-> 200, header |-> None, body |-> b] : b \in TagBodies}
    \cup {[kind |-> "http", status |-> st, header |-> None, body |-> None] : st \in {401, 404, 500}}
    \cup {[kind |-> "http", status |-> 401, header |-> Some(h), body |-> None] :
              h \in ChallengeHeaders}

\* What the token endpoint may answer. body: "not_json", "not_object", "no_token",
\* "token_not_string", "token_not_jwt" or "jwt" (an object whose token is
\* JWT-structured).
TokenBodies == {"not_json", "not_object", "no_token", "token_not_string", "token_not_jwt", "jwt"}

TokenResponses ==
    {[kind |-> "send_err"], [kind |-> "bytes_err", status |-> 200, body |-> "jwt"]}
    \cup {[kind |-> "http", status |-> 200, body |-> b] : b \in TokenBodies}
    \cup {[kind |-> "http", status |-> st, body |-> "not_json"] : st \in {401, 500}}

\* StatusCode::is_success
is_success(status) == status >= 200 /\ status <= 299

\* HeaderValue::to_str: fails on a byte outside visible ASCII
to_str(h) == IF Contains(h, NonAscii) THEN None ELSE Some(h)

\* Url::parse succeeds on an absolute URL: a scheme, then ":".
Url_parse_ok(u) == FirstIndex(u, ":") > 1

\* String::replace('"', "")
RECURSIVE StripQuotes(_)
StripQuotes(v) ==
    IF Len(v) = 0 THEN <<>>
    ELSE IF Head(v) = "\"" THEN StripQuotes(Tail(v))
    ELSE <<Head(v)>> \o StripQuotes(Tail(v))

\* raw_parts.split(',').filter_map(split_once('=')).map(..).collect::<BTreeMap>():
\* the value a key maps to is the one of its last occurrence.
ChallengeGet(raw_parts, key) ==
    LET pieces == Split(raw_parts, ",")
        hits == {i \in 1..Len(pieces) :
                    /\ IsSome(SplitOnce(pieces[i], "="))
                    /\ Unwrap(SplitOnce(pieces[i], "="))[1] = key}
    IN  IF hits = {} THEN None
        ELSE LET last == CHOOSE i \in hits : \A j \in hits : j <= i
             IN  Some(StripQuotes(Unwrap(SplitOnce(pieces[last], "="))[2]))

Panic(at) == [kind |-> "Panic", at |-> at]
FetchOk(tag_list) == [kind |-> "Ok", tags |-> tag_list]
NeedsAuth(conf) == [kind |-> "NeedsAuth", conf |-> conf]
FetchErr(e) == [kind |-> "Err", e |-> e]

S_realm == <<"r", "e", "a", "l", "m">>
S_service == <<"s", "e", "r", "v", "i", "c", "e">>
S_scope == <<"s", "c", "o", "p", "e">>

\* docker.rs:109-131: a 401 response's challenge
ParseChallenge(resp) ==
    IF ~IsSome(resp.header) THEN FetchErr("FailedAuth")
    ELSE IF ~IsSome(to_str(Unwrap(resp.header))) THEN Panic("to_str")
    ELSE LET content == Unwrap(to_str(Unwrap(resp.header)))
             sp == SplitOnce(content, " ")
         IN  IF ~IsSome(sp) THEN Panic("split_once")
             ELSE LET raw_parts == Unwrap(sp)[2]
                      realm == ChallengeGet(raw_parts, S_realm)
                      service == ChallengeGet(raw_parts, S_service)
                      scope == ChallengeGet(raw_parts, S_scope)
                  IN  IF ~IsSome(realm) THEN Panic("realm")
                      ELSE IF ~IsSome(service) THEN Panic("service")
                      ELSE IF ~IsSome(scope) THEN Panic("scope")
                      ELSE NeedsAuth([realm |-> Unwrap(realm), service |-> Unwrap(service),
                                      scope |-> Unwrap(scope)])

\* The request try_get_tags sends: docker.rs:82-94
TagRequest(image, tok) ==
    [kind |-> "tags",
     host |-> S_hub,
     namespace |-> IF IsSome(image.namespace) THEN Unwrap(image.namespace) ELSE <<"l", "i", "b", "r", "a", "r", "y">>,
     name |-> image.name,
     bearer |-> tok]

\* try_get_tags, from the response on: docker.rs:96-136
try_get_tags(resp) ==
    IF resp.kind = "send_err" THEN FetchErr("SendRequest")
    ELSE IF resp.kind = "bytes_err" THEN FetchErr("LoadingBytes")
    ELSE IF ~is_success(resp.status)
         THEN IF resp.status = 401 THEN ParseChallenge(resp)
              ELSE FetchErr("StatusCode")
    ELSE IF ~IsSome(resp.body) THEN Panic("from_slice")
    ELSE FetchOk(Unwrap(resp.body))

\* The request auth sends: docker.rs:27-36
TokenRequest(conf) ==
    [kind |-> "token", realm |-> conf.realm, service |-> conf.service, scope |-> conf.scope,
     client_id |-> <<"N", "o", "m", "a", "d", "-", "V", "M", "o", "n", "i", "t", "o", "r">>]

S_token == <<"t">>

\* auth, from the response on: docker.rs:35-59
auth(resp) ==
    IF resp.kind = "send_err" THEN FetchErr("AuthError.SendRequest")
    ELSE IF ~is_success(resp.status) THEN FetchErr("AuthError.StatusCode")
    ELSE IF resp.kind = "bytes_err" THEN FetchErr("AuthError.LoadingBytes")
    ELSE IF resp.body = "not_json" THEN Panic("from_slice")
    ELSE IF resp.body = "not_object" THEN Panic("as_object")
    ELSE IF resp.body = "no_token" THEN Panic("get_token")
    ELSE IF resp.body = "token_not_string" THEN Panic("as_str")
    ELSE IF resp.body = "token_not_jwt" THEN FetchErr("AuthError.JwtToken")
    ELSE [kind |-> "Ok", token |-> S_token]

----------------------------------------------------------------------------
(* SpecTags: one call of get_tags against a registry that answers anything *)

RawImagePool == {<<"u", "s", "e", "r", "/", "t", "e", "s", "t", ":", "1", ".", "2", ".", "3">>, <<"t", "e", "s", "t", ":", "1", ".", "2", ".", "3">>, <<"t", "e", "s", "t", ".", "c", "o", "m", "/", "u", "s", "e", "r", "/", "t", "e", "s", "t", ":", "1", ".", "2", ".", "3">>,
                 <<"t", "e", "s", "t", ":", "1">>}

ImagePool == {Image_parse(raw).v : raw \in {r \in RawImagePool : Image_parse(r).ok}}

InitTags ==
    /\ gpc = "anonymous"
    /\ gimage \in ImagePool
    /\ auth_conf = None
    /\ token = None
    /\ gresult = None
    /\ requests = <<>>
    /\ responses = <<>>
    /\ VersionOff
    /\ LoopOff
    /\ ImageOff
    /\ StreamOff

\* get_tags, docker.rs:143-147: the anonymous attempt
AnonymousAttempt ==
    /\ gpc = "anonymous"
    /\ \E resp \in TagResponses :
        LET r == try_get_tags(resp) IN
        /\ requests' = Append(requests, TagRequest(gimage, None))
        /\ responses' = Append(responses, resp)
        /\ IF r.kind = "NeedsAuth"
           THEN /\ auth_conf' = Some(r.conf)
                /\ gpc' = "authenticate"
                /\ gresult' = gresult
           ELSE /\ auth_conf' = auth_conf
                /\ gpc' = IF r.kind = "Panic" THEN "panicked" ELSE "returned"
                /\ gresult' = Some(r)
    /\ UNCHANGED <<gimage, token, versionVars, loopVars, imageVars, streamVars>>

\* get_tags, docker.rs:149-151, with auth, docker.rs:26-60
Authenticate ==
    /\ gpc = "authenticate"
    /\ IF ~Url_parse_ok(Unwrap(auth_conf).realm)
       THEN /\ gpc' = "panicked"
            /\ gresult' = Some(Panic("Url::parse"))
            /\ UNCHANGED <<token, requests, responses>>
       ELSE \E resp \in TokenResponses :
            LET a == auth(resp) IN
            /\ requests' = Append(requests, TokenRequest(Unwrap(auth_conf)))
            /\ responses' = Append(responses, resp)
            /\ IF a.kind = "Ok"
               THEN /\ token' = Some(a.token)
                    /\ gpc' = "retry"
                    /\ gresult' = gresult
               ELSE /\ token' = token
                    /\ gpc' = IF a.kind = "Panic" THEN "panicked" ELSE "returned"
                    /\ gresult' = Some(a)
    /\ UNCHANGED <<gimage, auth_conf, versionVars, loopVars, imageVars, streamVars>>

\* get_tags, docker.rs:153-157: the one retry, with the bearer token
Retry ==
    /\ gpc = "retry"
    /\ \E resp \in TagResponses :
        LET r == try_get_tags(resp) IN
        /\ requests' = Append(requests, TagRequest(gimage, token))
        /\ responses' = Append(responses, resp)
        /\ gpc' = IF r.kind = "Panic" THEN "panicked" ELSE "returned"
        /\ gresult' = Some(IF r.kind = "NeedsAuth" THEN FetchErr("FailedAuth") ELSE r)
    /\ UNCHANGED <<gimage, auth_conf, token, versionVars, loopVars, imageVars, streamVars>>

NextTags == AnonymousAttempt \/ Authenticate \/ Retry

SpecTags == InitTags /\ [][NextTags]_vars

----------------------------------------------------------------------------
(* Claims about get_tags (checked under SpecTags) *)

CountKind(kind) == Cardinality({i \in 1..Len(requests) : requests[i].kind = kind})

CallEnded == gpc \in {"returned", "panicked"}

\* The first response was a 401 whose challenge has the three keys and a URL realm.
ChallengedFirst ==
    /\ Len(responses) >= 1
    /\ responses[1].kind = "http"
    /\ responses[1].status = 401
    /\ ParseChallenge(responses[1]).kind = "NeedsAuth"
    /\ Url_parse_ok(ParseChallenge(responses[1]).conf.realm)

\* C1: in one get_tags call a 401 with a valid challenge leads to exactly one
\* token request and, the token obtained, exactly one retried tag-list request;
\* a 401 on the retry ends the call with the error FailedAuth; and the call never
\* makes more than one token request or more than two tag-list requests.
C1_OneAuthRoundTrip ==
    /\ CountKind("token") <= 1
    /\ CountKind("tags") <= 2
    /\ (CallEnded /\ ChallengedFirst) =>
          /\ CountKind("token") = 1
          /\ IsSome(token) => CountKind("tags") = 2
          /\ (Len(responses) = 3 /\ responses[3].kind = "http" /\ responses[3].status = 401)
                 => gresult = Some(FetchErr("FailedAuth"))

\* The response to the anonymous attempt has come in with an HTTP status.
AnonymousAnswered == Len(responses) >= 1 /\ responses[1].kind = "http"

\* The call has entered the Authenticate state: it holds a challenge to answer
\* or has sent a token request.
InAuthenticate == gpc = "authenticate" \/ auth_conf # <<>> \/ CountKind("token") > 0

\* C16: of the anonymous attempt, a 2xx response ends the call with the registry's
\* tag list and no token request; a response that is neither 2xx nor 401 ends it
\* with the error StatusCode and no token request; a 401 without a
\* www-authenticate header ends it with the error FailedAuth; and only a 401
\* with the header brings the call to the Authenticate state.
C16_AnonymousOutcomes ==
    AnonymousAnswered =>
        LET r == responses[1] IN
        /\ (r.status >= 200 /\ r.status <= 299) =>
              /\ gpc = "returned"
              /\ gresult # <<>> /\ gresult[1].kind = "Ok"
              /\ r.body # <<>> => gresult[1].tags = r.body[1]
              /\ CountKind("token") = 0
        /\ (~(r.status >= 200 /\ r.status <= 299) /\ r.status # 401) =>
              /\ gpc = "returned"
              /\ gresult = <<[kind |-> "Err", e |-> "StatusCode"]>>
              /\ CountKind("token") = 0
        /\ (r.status = 401 /\ r.header = <<>>) =>
              /\ gpc = "returned"
              /\ gresult = <<[kind |-> "Err", e |-> "FailedAuth"]>>
        /\ InAuthenticate => (r.status = 401 /\ r.header # <<>>)

\* Challenge headers that lack a required key or are malformed: no scope key, no
\* key at all after the scheme, a value that is not text.
BrokenChallenges == {H_noscope, H_noparts, H_opaque}

\* C17: when the 401 challenge lacks one of realm, service and scope, or is
\* malformed, get_tags ends with an error value returned to the caller (so that
\* the loop skips the task and goes on); the call does not crash.
C17_BrokenChallengeIsError ==
    (AnonymousAnswered /\ responses[1].status = 401 /\ responses[1].header # <<>>
        /\ responses[1].header[1] \in BrokenChallenges) =>
        /\ gpc = "returned"
        /\ gresult # <<>> /\ gresult[1].kind = "Err"
        /\ CountKind("token") = 0

\* The token endpoint has answered with a status that is not 2xx, or with a body
\* that is not a JSON object with a JWT-structured string token.
TokenRefused ==
    /\ Len(responses) >= 2
    /\ requests[2].kind = "token"
    /\ responses[2].kind = "http"
    /\ \/ ~(responses[2].status >= 200 /\ responses[2].status <= 299)
       \/ responses[2].body # "jwt"

\* C18: a non-2xx response of the token endpoint, or a malformed token body, ends
\* get_tags with an AuthError returned as an error value, and no authenticated
\* tag-list request is sent.
C18_TokenFailureIsAuthError ==
    TokenRefused =>
        /\ gpc = "returned"
        /\ gresult # <<>> /\ gresult[1].kind = "Err"
        /\ gresult[1].e \in {"AuthError.SendRequest", "AuthError.StatusCode",
                             "AuthError.LoadingBytes", "AuthError.JwtToken"}
        /\ CountKind("tags") = 1
        /\ token = <<>>

\* C19: every tag-list request of the call, anonymous or with the token, goes to
\* the registry host of the image, with the path
\* /v2/{namespace or "library"}/{name}/tags/list.
C19_RequestsGoToImageRegistry ==
    \A i \in 1..Len(requests) :
        requests[i].kind = "tags" =>
            /\ requests[i].host = gimage.registry
            /\ requests[i].namespace = (IF gimage.namespace = <<>>
                                        THEN <<"l", "i", "b", "r", "a", "r", "y">>
                                        ELSE gimage.namespace[1])
            /\ requests[i].name = gimage.name

----------------------------------------------------------------------------
(* get_tags and get_version as whole calls: docker.rs and lib.rs *)

\* get_tags, docker.rs:139-158, against a registry that answers r1 to the
\* anonymous attempt, a to the token request and r2 to the retry; with the
\* numbers of tag-list and token requests the call sends.
get_tags(r1, a, r2) ==
    LET f1 == try_get_tags(r1) IN
    IF f1.kind # "NeedsAuth" THEN [result |-> f1, tag_requests |-> 1, token_requests |-> 0]
    ELSE IF ~Url_parse_ok(f1.conf.realm)
         THEN [result |-> Panic("Url::parse"), tag_requests |-> 1, token_requests |-> 0]
    ELSE LET au == auth(a) IN
         IF au.kind # "Ok" THEN [result |-> au, tag_requests |-> 1, token_requests |-> 1]
         ELSE LET f2 == try_get_tags(r2) IN
              [result |-> IF f2.kind = "NeedsAuth" THEN FetchErr("FailedAuth") ELSE f2,
               tag_requests |-> 2, token_requests |-> 1]

\* Every course a get_tags call can take.
GetTagsRuns ==
    {get_tags(r1, a, r2) : r1 \in TagResponses, a \in TokenResponses, r2 \in TagResponses}

NoRequests(result) ==
    [result |-> result, panic |-> "none", tag_requests |-> 0, token_requests |-> 0]

\* nomad::ReadJobConfig
Docker(image) == [driver |-> "docker", image |-> image]
RawExec == [driver |-> "raw_exec"]

\* lib.rs:128-160: the tags are listed and the image's version is classified
Resolve(image_version, run) ==
    IF run.result.kind = "Panic"
    THEN [result |-> NoResult, panic |-> run.result.at,
          tag_requests |-> run.tag_requests, token_requests |-> run.token_requests]
    ELSE [result |-> IF run.result.kind = "Ok" THEN Classify(image_version, run.result.tags)
                     ELSE NoResult,
          panic |-> "none",
          tag_requests |-> run.tag_requests, token_requests |-> run.token_requests]

\* get_version without the short cut of lib.rs:121-126 for the floating tag.
get_version_NoShortCut(config, run) ==
    IF config.driver = "raw_exec" THEN NoRequests(UpToDate(<<>>))
    ELSE LET image == Image_parse(config.image) IN
         IF ~image.ok THEN NoRequests(NoResult)
         ELSE LET image_version == parse_version(image.v.tag) IN
              IF ~image_version.ok THEN NoRequests(NoResult)
              ELSE Resolve(image_version.v, run)

\* get_version as it would be if a raw_exec task were left without a result.
get_version_RawExecSkipped(config, run) ==
    IF config.driver = "raw_exec" THEN NoRequests(NoResult)
    ELSE LET image == Image_parse(config.image) IN
         IF ~image.ok THEN NoRequests(NoResult)
         ELSE LET image_version == parse_version(image.v.tag) IN
              IF ~image_version.ok THEN NoRequests(NoResult)
              ELSE IF Latest = image_version.v
                   THEN NoRequests(UpToDate(Display(image_version.v)))
              ELSE Resolve(image_version.v, run)

\* the closure get_version, lib.rs:92-170; run is the course get_tags takes if called
get_version(config, run) ==
    IF config.driver = "raw_exec" THEN NoRequests(UpToDate(<<>>))
    ELSE LET image == Image_parse(config.image) IN
         IF ~image.ok THEN NoRequests(NoResult)
         ELSE LET image_version == parse_version(image.v.tag) IN
              IF ~image_version.ok THEN NoRequests(NoResult)
              ELSE IF Latest = image_version.v
                   THEN NoRequests(UpToDate(Display(image_version.v)))
              ELSE Resolve(image_version.v, run)

----------------------------------------------------------------------------
(* The metrics store: metrics.rs *)

\* A reset that leaves the series in place.
reset_Keep(vec) == vec

\* GaugeVec::reset: every series is dropped
reset(vec) == <<>>

\* GaugeVec::get_metric_with: the series is created at 0 when it does not exist
get_metric_with(vec, labels) ==
    IF labels \in DOMAIN vec THEN vec
    ELSE [k \in DOMAIN vec \cup {labels} |-> IF k = labels THEN 0 ELSE vec[k]]

\* Gauge::set on an existing series
set(vec, labels, value) == [vec EXCEPT ![labels] = value]

\* the labels Metrics::update gives the versions gauge: metrics.rs:72-83, 91-102
VersionLabels(u) ==
    IF u[4].kind = "UpToDate" THEN <<u[1], u[2], u[3], u[4].version, u[4].version>>
    ELSE <<u[1], u[2], u[3], u[4].current, u[4].newest>>

\* Metrics::update as it would be if it set up_to_date to 1 in both arms.
UpToDateValue_One(result) == 1

\* the value Metrics::update sets on up_to_date: metrics.rs:69, 88
UpToDateValue(result) == IF result.kind = "UpToDate" THEN 1 ELSE 0

\* the value Metrics::update sets on out_of_date: metrics.rs:70, 89
OutOfDateValue(result) == IF result.kind = "UpToDate" THEN 0 ELSE 1

Store == [up_to_date |-> up_to_date, out_of_date |-> out_of_date, versions |-> versions]

----------------------------------------------------------------------------
(* The Nomad cluster: nomad.rs *)

I_template == <<"$", "V", "/", "a", "p", "p", ":", "1">>
I_floating == <<"t", "e", "s", "t">>
I_pinned == <<"t", "e", "s", "t", ":", "1", ".", "2", ".", "3">>
I_named == <<"t", "e", "s", "t", ":", "x">>
I_latest == <<"t", "e", "s", "t", ":", "l", "a", "t", "e", "s", "t">>

\* Images a job file can name: an unexpanded template, no tag, the floating tag, a
\* full version, a tag that is no version.
LoopImages == {I_template, I_floating, I_latest, I_pinned, I_named}

\* list_jobs, nomad.rs:58-73: Err(()) or the ids of the jobs
ListOutcomes == {Err("unit")} \cup {Ok(l) : l \in {<<>>, <<"a">>, <<"b">>, <<"a", "b">>}}

\* read_job, nomad.rs:75-95: Err(()) or the job's detail. Job a has a Docker task and
\* a raw_exec task in one group, job b a Docker task.
JobDetail(id, parent, image) ==
    [name |-> id, parent_id |-> parent,
     task_groups |-> <<[name |-> "g",
                        tasks |-> IF id = "a"
                                  THEN <<[name |-> "t1", config |-> Docker(image)],
                                         [name |-> "t2", config |-> RawExec]>>
                                  ELSE <<[name |-> "t1", config |-> Docker(image)]>>]>>]

ReadOutcomes(id) ==
    {Err("unit")} \cup {Ok(JobDetail(id, parent, image)) : parent \in {"", "p"}, image \in LoopImages}

\* lib.rs:77-86: job -> group -> task, flattened in order
TasksOf(jname, group) ==
    [i \in 1..Len(group.tasks) |-> <<jname, group.name, group.tasks[i].name, group.tasks[i].config>>]

RECURSIVE GroupsFlat(_, _)
GroupsFlat(jname, groups) ==
    IF Len(groups) = 0 THEN <<>>
    ELSE TasksOf(jname, Head(groups)) \o GroupsFlat(jname, Tail(groups))

RECURSIVE Flatten(_)
Flatten(js) ==
    IF Len(js) = 0 THEN <<>>
    ELSE GroupsFlat(Head(js).name, Head(js).task_groups) \o Flatten(Tail(js))

----------------------------------------------------------------------------
(* Spec: Client::run, Client::check, Metrics and the scrape handler *)

Init ==
    /\ pc = "list_jobs"
    /\ cycle = 1
    /\ job_queue = <<>>
    /\ jobs = <<>>
    /\ task_list = <<>>
    /\ tidx = 0
    /\ updates = <<>>
    /\ up_to_date = <<>>
    /\ out_of_date = <<>>
    /\ versions = <<>>
    /\ pidx = 0
    /\ scraped = None
    /\ last_published = [up_to_date |-> <<>>, out_of_date |-> <<>>, versions |-> <<>>]
    /\ last_good = <<>>
    /\ last_task = None
    /\ nomad_error = "none"
    /\ read_log = <<>>
    /\ panic_at = "none"
    /\ VersionOff
    /\ TagsOff
    /\ ImageOff
    /\ StreamOff

\* no scrape is between gathering and returning (the loop's steps interleave with
\* whole scrapes)
LoopStep == scraped = None

\* where check goes once every job is read: lib.rs:75-91
AfterRead(list) == IF Len(list) = 0 THEN "reset_out_of_date" ELSE "resolve"

\* check as it would be if it cleared the store before listing the jobs.
ListJobs_ClearFirst ==
    /\ pc = "list_jobs"
    /\ LoopStep
    /\ \E out \in ListOutcomes :
        IF ~out.ok
        THEN /\ pc' = "panicked"
             /\ panic_at' = "list_jobs"
             /\ nomad_error' = "list_jobs"
             /\ UNCHANGED job_queue
        ELSE /\ job_queue' = out.v
             /\ pc' = IF Len(out.v) = 0 THEN AfterRead(<<>>) ELSE "read_job"
             /\ UNCHANGED <<panic_at, nomad_error>>
    /\ out_of_date' = reset(out_of_date)
    /\ up_to_date' = reset(up_to_date)
    /\ versions' = reset(versions)
    /\ UNCHANGED <<cycle, jobs, task_list, tidx, updates,
                   pidx, scraped, last_published, last_good, last_task, read_log>>
    /\ UNCHANGED <<versionVars, tagsVars, imageVars, streamVars>>

\* lib.rs:54-56: list_jobs(..).await.unwrap()
ListJobs ==
    /\ pc = "list_jobs"
    /\ LoopStep
    /\ \E out \in ListOutcomes :
        IF ~out.ok
        THEN /\ pc' = "panicked"
             /\ panic_at' = "list_jobs"
             /\ nomad_error' = "list_jobs"
             /\ UNCHANGED job_queue
        ELSE /\ job_queue' = out.v
             /\ pc' = IF Len(out.v) = 0 THEN AfterRead(<<>>) ELSE "read_job"
             /\ UNCHANGED <<panic_at, nomad_error>>
    /\ UNCHANGED <<cycle, jobs, task_list, tidx, updates, up_to_date, out_of_date, versions,
                   pidx, scraped, last_published, last_good, last_task, read_log>>
    /\ UNCHANGED <<versionVars, tagsVars, imageVars, streamVars>>

\* lib.rs:65-70 as it would be without the check of parent_id.
Keep_NoSkip(tmp, task) == Append(tmp, task)

\* lib.rs:65-70: a job with a parent is not pushed on tmp
Keep(tmp, task) == IF task.parent_id # "" THEN tmp ELSE Append(tmp, task)

\* lib.rs:60-71: one turn of the loop over raw_task_list
ReadJob ==
    /\ pc = "read_job"
    /\ LoopStep
    /\ \E out \in ReadOutcomes(Head(job_queue)) :
        IF ~out.ok
        THEN /\ pc' = "panicked"
             /\ panic_at' = "read_job"
             /\ nomad_error' = "read_job"
             /\ UNCHANGED <<job_queue, jobs, task_list, read_log>>
        ELSE LET kept == Keep(jobs, out.v)
                 rest == Tail(job_queue)
             IN  /\ job_queue' = rest
                 /\ read_log' = Append(read_log, <<Head(job_queue), out.v.parent_id>>)
                 /\ IF Len(rest) = 0
                    THEN /\ jobs' = <<>>
                         /\ task_list' = Flatten(kept)
                         /\ pc' = AfterRead(Flatten(kept))
                    ELSE /\ jobs' = kept
                         /\ task_list' = task_list
                         /\ pc' = "read_job"
                 /\ UNCHANGED <<panic_at, nomad_error>>
    /\ UNCHANGED <<cycle, tidx, updates, up_to_date, out_of_date, versions,
                   pidx, scraped, last_published, last_good, last_task>>
    /\ UNCHANGED <<versionVars, tagsVars, imageVars, streamVars>>

\* lib.rs:91-178: one turn of the loop over job_task_iter
ResolveTask ==
    /\ pc = "resolve"
    /\ LoopStep
    /\ \E run \in GetTagsRuns :
        LET task == task_list[tidx + 1]
            got == get_version(task[4], run)
        IN  /\ last_task' = Some([job |-> task[1], group |-> task[2], task |-> task[3],
                                  config |-> task[4], result |-> got.result,
                                  panic |-> got.panic,
                                  tag_requests |-> got.tag_requests,
                                  token_requests |-> got.token_requests])
            /\ IF got.panic # "none"
               THEN /\ pc' = "panicked"
                    /\ panic_at' = got.panic
                    /\ UNCHANGED <<tidx, updates>>
               ELSE /\ tidx' = tidx + 1
                    /\ updates' = IF got.result = NoResult THEN updates
                                  ELSE Append(updates, <<task[1], task[2], task[3], got.result>>)
                    /\ pc' = IF tidx + 1 = Len(task_list) THEN "reset_out_of_date" ELSE "resolve"
                    /\ UNCHANGED panic_at
    /\ UNCHANGED <<cycle, job_queue, jobs, task_list, up_to_date, out_of_date, versions,
                   pidx, scraped, last_published, last_good, nomad_error, read_log>>
    /\ UNCHANGED <<versionVars, tagsVars, imageVars, streamVars>>

UnchangedByPublish ==
    UNCHANGED <<cycle, job_queue, jobs, task_list, tidx, updates, scraped, last_task,
                nomad_error, read_log, panic_at, versionVars, tagsVars, imageVars, streamVars>>

\* Metrics::clear, metrics.rs:54
ResetOutOfDate ==
    /\ pc = "reset_out_of_date"
    /\ LoopStep
    /\ out_of_date' = reset(out_of_date)
    /\ pc' = "reset_up_to_date"
    /\ UNCHANGED <<up_to_date, versions, pidx, last_published, last_good>>
    /\ UnchangedByPublish

\* Metrics::clear, metrics.rs:55
ResetUpToDate ==
    /\ pc = "reset_up_to_date"
    /\ LoopStep
    /\ up_to_date' = reset(up_to_date)
    /\ pc' = "reset_versions"
    /\ UNCHANGED <<out_of_date, versions, pidx, last_published, last_good>>
    /\ UnchangedByPublish

\* Metrics::clear, metrics.rs:56; check ends here when there is nothing to publish
ResetVersions ==
    /\ pc = "reset_versions"
    /\ LoopStep
    /\ versions' = reset(versions)
    /\ IF Len(updates) = 0
       THEN /\ pc' = "sleep"
            /\ last_published' = [up_to_date |-> up_to_date, out_of_date |-> out_of_date,
                                  versions |-> versions']
       ELSE /\ pc' = "get_up_to_date"
            /\ UNCHANGED last_published
    /\ UNCHANGED <<up_to_date, out_of_date, pidx, last_good>>
    /\ UnchangedByPublish

\* Metrics::update, metrics.rs:64
GetUpToDate ==
    /\ pc = "get_up_to_date"
    /\ LoopStep
    /\ LET u == updates[pidx + 1] IN
       up_to_date' = get_metric_with(up_to_date, <<u[1], u[2], u[3]>>)
    /\ pc' = "get_out_of_date"
    /\ UNCHANGED <<out_of_date, versions, pidx, last_published, last_good>>
    /\ UnchangedByPublish

\* Metrics::update, metrics.rs:65
GetOutOfDate ==
    /\ pc = "get_out_of_date"
    /\ LoopStep
    /\ LET u == updates[pidx + 1] IN
       out_of_date' = get_metric_with(out_of_date, <<u[1], u[2], u[3]>>)
    /\ pc' = "set_up_to_date"
    /\ UNCHANGED <<up_to_date, versions, pidx, last_published, last_good>>
    /\ UnchangedByPublish

\* Metrics::update, metrics.rs:69 and 88
SetUpToDate ==
    /\ pc = "set_up_to_date"
    /\ LoopStep
    /\ LET u == updates[pidx + 1] IN
       up_to_date' = set(up_to_date, <<u[1], u[2], u[3]>>, UpToDateValue(u[4]))
    /\ pc' = "set_out_of_date"
    /\ UNCHANGED <<out_of_date, versions, pidx, last_published, last_good>>
    /\ UnchangedByPublish

\* Metrics::update, metrics.rs:70 and 89
SetOutOfDate ==
    /\ pc = "set_out_of_date"
    /\ LoopStep
    /\ LET u == updates[pidx + 1] IN
       out_of_date' = set(out_of_date, <<u[1], u[2], u[3]>>, OutOfDateValue(u[4]))
    /\ pc' = "get_versions"
    /\ UNCHANGED <<up_to_date, versions, pidx, last_published, last_good>>
    /\ UnchangedByPublish

\* Metrics::update, metrics.rs:72-84 and 91-103
GetVersions ==
    /\ pc = "get_versions"
    /\ LoopStep
    /\ versions' = get_metric_with(versions, VersionLabels(updates[pidx + 1]))
    /\ pc' = "set_versions"
    /\ UNCHANGED <<up_to_date, out_of_date, pidx, last_published, last_good>>
    /\ UnchangedByPublish

\* Metrics::update, metrics.rs:85 and 104; then the next update of lib.rs:186, or
\* the end of check
SetVersions ==
    /\ pc = "set_versions"
    /\ LoopStep
    /\ LET u == updates[pidx + 1] IN
       /\ versions' = set(versions, VersionLabels(u), 1)
       /\ last_good' = [k \in DOMAIN last_good \cup {<<u[1], u[2], u[3]>>} |->
                           IF k = <<u[1], u[2], u[3]>> THEN u[4] ELSE last_good[k]]
    /\ pidx' = pidx + 1
    /\ IF pidx + 1 = Len(updates)
       THEN /\ pc' = "sleep"
            /\ last_published' = [up_to_date |-> up_to_date, out_of_date |-> out_of_date,
                                  versions |-> versions']
       ELSE /\ pc' = "get_up_to_date"
            /\ UNCHANGED last_published
    /\ UNCHANGED <<up_to_date, out_of_date>>
    /\ UnchangedByPublish

\* Client::run, lib.rs:43-47: the sleep ends and the next check begins
Tick ==
    /\ pc = "sleep"
    /\ LoopStep
    /\ cycle < MaxCycles
    /\ cycle' = cycle + 1
    /\ pc' = "list_jobs"
    /\ job_queue' = <<>>
    /\ jobs' = <<>>
    /\ task_list' = <<>>
    /\ tidx' = 0
    /\ updates' = <<>>
    /\ pidx' = 0
    /\ last_task' = None
    /\ read_log' = <<>>
    /\ UNCHANGED <<up_to_date, out_of_date, versions, scraped, last_published, last_good,
                   nomad_error, panic_at>>
    /\ UNCHANGED <<versionVars, tagsVars, imageVars, streamVars>>

\* main.rs:46-48 with Client::get_metrics, lib.rs:31-38: a scrape gathers the store
Scrape ==
    /\ pc # "off"
    /\ scraped = None
    /\ scraped' = Some(Store)
    /\ UNCHANGED <<pc, cycle, job_queue, jobs, task_list, tidx, updates, up_to_date,
                   out_of_date, versions, pidx, last_published, last_good, last_task,
                   nomad_error, read_log, panic_at>>
    /\ UNCHANGED <<versionVars, tagsVars, imageVars, streamVars>>

\* the response is sent and dropped
ScrapeReturn ==
    /\ scraped # None
    /\ scraped' = None
    /\ UNCHANGED <<pc, cycle, job_queue, jobs, task_list, tidx, updates, up_to_date,
                   out_of_date, versions, pidx, last_published, last_good, last_task,
                   nomad_error, read_log, panic_at>>
    /\ UNCHANGED <<versionVars, tagsVars, imageVars, streamVars>>

Next ==
    \/ ListJobs \/ ReadJob \/ ResolveTask
    \/ ResetOutOfDate \/ ResetUpToDate \/ ResetVersions
    \/ GetUpToDate \/ GetOutOfDate \/ SetUpToDate \/ SetOutOfDate
    \/ GetVersions \/ SetVersions
    \/ Tick \/ Scrape \/ ScrapeReturn

Spec == Init /\ [][Next]_vars

----------------------------------------------------------------------------
(* Claims about the reconciliation loop and the metrics store (checked under Spec) *)

Labels(x) == <<x[1], x[2], x[3]>>

\* the tasks this cycle resolved: those with an entry in updates
ResolvedLabels == {Labels(updates[k]) : k \in 1..Len(updates)}

\* the tasks this cycle went through and skipped
SkippedLabels == {Labels(task_list[i]) : i \in 1..tidx} \ ResolvedLabels

\* the store shows update u: both gauges at u's 0/1 values, its versions series at 1
Published(u) ==
    /\ Labels(u) \in DOMAIN up_to_date
    /\ Labels(u) \in DOMAIN out_of_date
    /\ up_to_date[Labels(u)] = (IF u[4].kind = "UpToDate" THEN 1 ELSE 0)
    /\ out_of_date[Labels(u)] = (IF u[4].kind = "UpToDate" THEN 0 ELSE 1)
    /\ (IF u[4].kind = "UpToDate"
        THEN <<u[1], u[2], u[3], u[4].version, u[4].version>>
        ELSE <<u[1], u[2], u[3], u[4].current, u[4].newest>>) \in DOMAIN versions

PublishPcs == {"reset_out_of_date", "reset_up_to_date", "reset_versions", "get_up_to_date",
               "get_out_of_date", "set_up_to_date", "set_out_of_date", "get_versions",
               "set_versions"}

SetPcs == PublishPcs \ {"reset_out_of_date", "reset_up_to_date", "reset_versions"}

\* C2: a failed job-list or job-detail request ends only the cycle: the loop task
\* has not crashed and is asleep until the next tick.
C2_NomadFailureEndsOnlyCycle ==
    nomad_error # "none" => (pc = "sleep" /\ panic_at = "none")

\* C3: a task that fails (image or version that does not parse, tag-lister
\* failure) is only skipped: a cycle that got to its tasks goes through all of
\* them, and when it ends every task that resolved is in the metrics store.
C3_CycleIsolation ==
    (pc \in {"sleep", "panicked"} /\ nomad_error = "none") =>
        /\ tidx = Len(task_list)
        /\ \A k \in 1..Len(updates) : Published(updates[k])

NewFullSet ==
    [up_to_date |-> [l \in ResolvedLabels |->
                        LET u == updates[CHOOSE k \in 1..Len(updates) : Labels(updates[k]) = l]
                        IN  IF u[4].kind = "UpToDate" THEN 1 ELSE 0],
     out_of_date |-> [l \in ResolvedLabels |->
                        LET u == updates[CHOOSE k \in 1..Len(updates) : Labels(updates[k]) = l]
                        IN  IF u[4].kind = "UpToDate" THEN 0 ELSE 1],
     versions |-> [l \in {VersionLabels(updates[k]) : k \in 1..Len(updates)} |-> 1]]

\* C5: a scrape sees the complete set of the previous cycle or the complete set
\* of the new cycle, never a cleared or partly repopulated store.
C5_ScrapeSeesFullSet ==
    scraped # None =>
        \/ Unwrap(scraped) = last_published
        \/ (pc \in PublishPcs /\ Unwrap(scraped) = NewFullSet)

\* C6 as stated: when a cycle has completed, a task skipped in it still has the
\* value last published for it, and has no value only if it was never resolved.
C6_SkippedKeepsLastValue ==
    pc = "sleep" =>
        \A l \in SkippedLabels :
            IF l \in DOMAIN last_good
            THEN Published(<<l[1], l[2], l[3], last_good[l]>>)
            ELSE l \notin DOMAIN up_to_date

\* C6 as amended: when a cycle has completed, a task skipped in it has no series
\* in the metrics store, whatever an earlier cycle published for it.
C6_SkippedHasNoValue ==
    pc = "sleep" =>
        \A l \in SkippedLabels :
            /\ l \notin DOMAIN up_to_date
            /\ l \notin DOMAIN out_of_date
            /\ \A v \in DOMAIN versions : Labels(v) # l

C6_Witness ==
    /\ pc = "sleep"
    /\ \E l \in SkippedLabels : l \in DOMAIN last_good

\* the image of a Docker task is on the floating tag: its tag is "latest" or absent
OnFloatingTag(config) ==
    /\ config.driver = "docker"
    /\ Image_parse(config.image).ok
    /\ parse_version(Image_parse(config.image).v.tag) = Ok(Latest)

\* C8: a Docker task whose tag parses to Latest is resolved UpToDate{"latest"}
\* with no tag-list request and no token request sent for it.
C8_LatestNoRequests ==
    (last_task # None /\ OnFloatingTag(Unwrap(last_task).config)) =>
        /\ Unwrap(last_task).result = [kind |-> "UpToDate", version |-> S_latest]
        /\ Unwrap(last_task).tag_requests = 0
        /\ Unwrap(last_task).token_requests = 0

C8_Witness ==
    /\ last_task # None
    /\ Unwrap(last_task).config = Docker(I_floating)
    /\ Unwrap(last_task).result.kind = "UpToDate"

\* the jobs whose detail, read in this cycle, names a parent, and those without
ChildJobs == {read_log[i][1] : i \in {k \in 1..Len(read_log) : read_log[k][2] # ""}}
OwnJobs == {read_log[i][1] : i \in {k \in 1..Len(read_log) : read_log[k][2] = ""}}

\* C20: a job whose detail has a non-empty ParentID is skipped: none of its tasks
\* is among the tasks of the cycle, none is resolved, none is in the store the
\* cycle publishes; and the jobs after it are still read and their tasks
\* processed.
C20_ChildJobSkipped ==
    /\ \A j \in ChildJobs :
          /\ \A i \in 1..Len(task_list) : task_list[i][1] # j
          /\ \A k \in 1..Len(updates) : updates[k][1] # j
          /\ last_task # <<>> => last_task[1].job # j
          /\ pc \in SetPcs \cup {"sleep"} =>
                /\ \A l \in DOMAIN up_to_date : l[1] # j
                /\ \A l \in DOMAIN out_of_date : l[1] # j
                /\ \A l \in DOMAIN versions : l[1] # j
    /\ pc \in {"resolve", "sleep"} \cup PublishPcs =>
          /\ job_queue = <<>>
          /\ \A j \in OwnJobs : \E i \in 1..Len(task_list) : task_list[i][1] = j
    /\ pc = "sleep" =>
          \A i \in 1..Len(task_list) : i <= tidx

\* Job a was read with a parent and job b after it without one; the cycle has
\* completed and published b's task and nothing of a.
C20_Witness ==
    /\ pc = "sleep"
    /\ read_log = <<<<"a", "p">>, <<"b", "">>>>
    /\ \E l \in DOMAIN up_to_date : l[1] = "b"
    /\ \A l \in DOMAIN up_to_date : l[1] # "a"

\* positions of task_list, already gone through, that hold a raw_exec task
RawExecDone == {i \in 1..tidx : task_list[i][4].driver = "raw_exec"}

\* C21: a task with a raw_exec config is reported UpToDate in every cycle that
\* reaches it: its resolution gives UpToDate with no tag-list and no token request
\* (its config holds no image to parse), it is among the cycle's updates, and a
\* cycle that completes publishes it as up to date.
C21_RawExecUpToDate ==
    /\ (last_task # <<>> /\ last_task[1].config.driver = "raw_exec") =>
          /\ last_task[1].result.kind = "UpToDate"
          /\ last_task[1].tag_requests = 0
          /\ last_task[1].token_requests = 0
          /\ last_task[1].panic = "none"
          /\ "image" \notin DOMAIN last_task[1].config
    /\ \A i \in RawExecDone :
          /\ \E k \in 1..Len(updates) :
                /\ <<updates[k][1], updates[k][2], updates[k][3]>>
                      = <<task_list[i][1], task_list[i][2], task_list[i][3]>>
                /\ updates[k][4].kind = "UpToDate"
          /\ pc = "sleep" =>
                /\ <<task_list[i][1], task_list[i][2], task_list[i][3]>> \in DOMAIN up_to_date
                /\ up_to_date[<<task_list[i][1], task_list[i][2], task_list[i][3]>>] = 1
                /\ out_of_date[<<task_list[i][1], task_list[i][2], task_list[i][3]>>] = 0

\* The second cycle has completed with the raw_exec task of job a published.
C21_Witness ==
    /\ pc = "sleep"
    /\ cycle = 2
    /\ RawExecDone # {}
    /\ <<"a", "g", "t2">> \in DOMAIN up_to_date
    /\ up_to_date[<<"a", "g", "t2">>] = 1

\* C23: after every Metrics::update of the cycle the gauges of its task are 0/1
\* and exclude one another: up_to_date = 1 and out_of_date = 0 for UpToDate,
\* up_to_date = 0 and out_of_date = 1 for OutOfDate, and the versions series with
\* the result's current and newest strings (both the version for UpToDate) is 1.
C23_UpdateSetsGauges ==
    \A k \in 1..pidx :
        LET l == <<updates[k][1], updates[k][2], updates[k][3]>>
            r == updates[k][4]
        IN  /\ l \in DOMAIN up_to_date /\ l \in DOMAIN out_of_date
            /\ up_to_date[l] \in {0, 1} /\ out_of_date[l] \in {0, 1}
            /\ up_to_date[l] + out_of_date[l] = 1
            /\ r.kind = "UpToDate" =>
                  /\ up_to_date[l] = 1 /\ out_of_date[l] = 0
                  /\ <<l[1], l[2], l[3], r.version, r.version>> \in DOMAIN versions
                  /\ versions[<<l[1], l[2], l[3], r.version, r.version>>] = 1
            /\ r.kind = "OutOfDate" =>
                  /\ up_to_date[l] = 0 /\ out_of_date[l] = 1
                  /\ <<l[1], l[2], l[3], r.current, r.newest>> \in DOMAIN versions
                  /\ versions[<<l[1], l[2], l[3], r.current, r.newest>>] = 1

\* Two updates have been made, one of them for a task that is out of date.
C23_Witness ==
    /\ pidx = 2
    /\ \E k \in 1..pidx : updates[k][4].kind = "OutOfDate"
    /\ \E k \in 1..pidx : updates[k][4].kind = "UpToDate"

\* C24: as the help text of out_of_date has it, a task that is out of date has
\* its out_of_date gauge at 0 and every other published task has it at 1.
C24_OutOfDateAsHelpText ==
    \A k \in 1..pidx :
        out_of_date[<<updates[k][1], updates[k][2], updates[k][3]>>]
            = (IF updates[k][4].kind = "OutOfDate" THEN 0 ELSE 1)

\* C25: the store is written only by the publish step: while a cycle lists and
\* reads the jobs and resolves the tasks, up to the clear, and when it has ended
\* early on a failed job-list or job-detail request, every gauge is as the last
\* completed cycle left it.
C25_StoreUntouchedBeforePublish ==
    /\ pc \in {"list_jobs", "read_job", "resolve", "reset_out_of_date", "panicked"} =>
          /\ up_to_date = last_published.up_to_date
          /\ out_of_date = last_published.out_of_date
          /\ versions = last_published.versions
    /\ nomad_error # "none" =>
          /\ pc \notin PublishPcs
          /\ up_to_date = last_published.up_to_date
          /\ out_of_date = last_published.out_of_date
          /\ versions = last_published.versions

\* The second cycle ended on a failed job-detail request, with the store still
\* holding what the first cycle published.
C25_Witness ==
    /\ cycle = 2
    /\ nomad_error = "read_job"
    /\ DOMAIN up_to_date # {}
    /\ up_to_date = last_published.up_to_date

----------------------------------------------------------------------------
(* SpecStream: EventStream::listen, eventstream.rs *)

\* Number of chunks the listener receives in the model.
MaxChunks == 3

\* Number of requests the listener sends in the model.
MaxConnects == 2

NL == "\n"

\* Chunks of the response body. An event line is written {i} for a JSON object
\* with Index i and {} for one without Index (the heartbeat of the stream); x is
\* a byte that is no JSON. A chunk can end anywhere: after a whole line, in the
\* middle of one, after several.
K_e1 == <<"{", "1", "}", NL>>
K_e2 == <<"{", "2", "}", NL>>
K_heartbeat == <<"{", "}", NL>>
K_garbage == <<"x", NL>>
K_head == <<"{", "2">>
K_tail == <<"}", NL>>
K_e1_e2 == <<"{", "1", "}", NL, "{", "2", "}", NL>>
K_e2_e1 == <<"{", "2", "}", NL, "{", "1", "}", NL>>

ChunkPool == {K_e1, K_e2, K_heartbeat, K_garbage, K_head, K_tail, K_e1_e2, K_e2_e1}

\* serde_json::from_slice::<EventResponse>: both fields are optional, so every
\* JSON object parses; what is no object is an error.
EventResponse_from_slice(bytes) ==
    IF bytes = <<"{", "}">> THEN Ok([index |-> None])
    ELSE IF Len(bytes) = 3 /\ bytes[1] = "{" /\ IsDigit(bytes[2]) /\ bytes[3] = "}"
         THEN Ok([index |-> Some(DigitVal(bytes[2]))])
    ELSE Err("serde")

\* The index as it would be stored if the event's index replaced it.
max_Latter(a, b) == b

\* core::cmp::max
max(a, b) == IF b > a THEN b ELSE a

InitStream ==
    /\ spc = "connect"
    /\ index = 0
    /\ pending = <<>>
    /\ notified = 0
    /\ query = None
    /\ connects = 0
    /\ received = 0
    /\ VersionOff
    /\ TagsOff
    /\ LoopOff
    /\ ImageOff

\* eventstream.rs:29-36, 74-76: the request is sent with the stored index; it
\* gives a response to read chunks from, or fails
Connect ==
    /\ spc = "connect"
    /\ connects < MaxConnects
    /\ query' = Some(index)
    /\ connects' = connects + 1
    /\ \E ok \in BOOLEAN : spc' = IF ok THEN "chunk" ELSE "sleep"
    /\ UNCHANGED <<index, pending, notified, received>>
    /\ UNCHANGED <<versionVars, tagsVars, loopVars, imageVars>>

\* eventstream.rs:38-72: a chunk arrives and the body of the inner loop runs
ReceiveChunk ==
    /\ spc = "chunk"
    /\ received < MaxChunks
    /\ \E chunk \in ChunkPool :
        LET extended == pending \o chunk
            end_index == FirstIndex(extended, NL)
            line == SubSeq(extended, 1, end_index - 1)
            rest == SubSeq(extended, end_index + 1, Len(extended))
            event == EventResponse_from_slice(line)
        IN  IF end_index = 0
            THEN /\ pending' = extended
                 /\ UNCHANGED <<index, notified>>
            ELSE /\ pending' = rest
                 /\ IF ~event.ok
                    THEN UNCHANGED <<index, notified>>
                    ELSE /\ index' = IF IsSome(event.v.index)
                                     THEN max(index, Unwrap(event.v.index))
                                     ELSE index
                         /\ notified' = notified + 1
    /\ received' = received + 1
    /\ UNCHANGED <<spc, query, connects>>
    /\ UNCHANGED <<versionVars, tagsVars, loopVars, imageVars>>

\* eventstream.rs:38-41: the response ends or fails, the inner loop breaks
StreamEnds ==
    /\ spc = "chunk"
    /\ spc' = "sleep"
    /\ UNCHANGED <<index, pending, notified, query, connects, received>>
    /\ UNCHANGED <<versionVars, tagsVars, loopVars, imageVars>>

\* eventstream.rs:78: the sleep ends and the outer loop starts over
Reconnect ==
    /\ spc = "sleep"
    /\ spc' = "connect"
    /\ UNCHANGED <<index, pending, notified, query, connects, received>>
    /\ UNCHANGED <<versionVars, tagsVars, loopVars, imageVars>>

NextStream == Connect \/ ReceiveChunk \/ StreamEnds \/ Reconnect

SpecStream == InitStream /\ [][NextStream]_vars

----------------------------------------------------------------------------
(* Claims about the event stream (checked under SpecStream) *)

\* C22: over every step of the listener, receiving events and reconnecting, the
\* stored index does not decrease, and every step in which an event's index
\* raises the stored index fires the wake-up signal.
C22_IndexMonotoneNotified ==
    [][/\ index' >= index
       /\ index' > index => notified' = notified + 1]_vars

\* After a reconnect an event has raised the index a second time, and each time
\* the waiters were notified.
C22_Witness ==
    /\ connects = 2
    /\ query = <<1>>
    /\ index = 2
    /\ notified >= 2

\* C26: when the listener has handled a chunk, the pending buffer holds no
\* complete line: every line received so far has been split off and parsed, also
\* when a chunk carried several lines and across a reconnect.
C26_NoCompleteLinePending ==
    received > 0 => \A i \in 1..Len(pending) : pending[i] # NL

====
